---- MODULE Spec2Model ----
(***************************************************************************)
(* The dcos_statsd input plugin: the container registry (DCOSStatsd), its  *)
(* per-container statsd listeners, the on-disk container files and the     *)
(* concurrent Gather with the container_id tagging accumulator.            *)
(***************************************************************************)
EXTENDS Integers, Sequences, FiniteSets, TLC

\* Number of AddContainer calls that get as far as starting a statsd server
\* in one run.
MaxServers == 2

\* Container ids a caller may pass in a Container.
Ids == {"a", "b"}

\* What a caller asks for: no host and no port (a random port on the default
\* host), or a host and a known port.
Requests ==
    {[StatsdHost |-> "", StatsdPort |-> 0],
     [StatsdHost |-> "127.0.0.1", StatsdPort |-> 1]}

\* A host and no port: a random port on the host the caller names.
HostRequest == [StatsdHost |-> "127.0.0.1", StatsdPort |-> 0]

\* The requests made of a plugin that is stopped and started again: they
\* name the host, with or without a port.
LifeRequests == {HostRequest} \cup {r \in Requests : r.StatsdPort # 0}

\* UDP ports of the machine; a server started on port 0 gets any free one,
\* and its Start fails when there is none.
Ports == {1, 2}

\* Goroutines serving command-API requests.
Threads == {"t1", "t2"}

\* The goroutine that calls Start and loads the containers from disk.
Main == "main"
Goroutines == Threads \cup {Main}

\* Tag maps a statsd server attaches to a metric (ParseDataDogTags): none, or
\* a container_id of its own.
NoTags == [k \in {} |-> ""]
EmittedTags == {NoTags, [k \in {"container_id"} |-> "spoofed"]}

\* The zero value of containers.Container (Server nil is 0).
NoCtr == [Id |-> "", StatsdHost |-> "", StatsdPort |-> 0, Server |-> 0]

VARIABLES
    ContainersDir,  \* ds.ContainersDir: "" or the directory
    StatsdHost,     \* ds.StatsdHost
    containers,     \* ds.containers: map id -> Container
    servers,        \* every statsd.Statsd started so far, by handle
    disk,           \* the files of ContainersDir: id -> decoded JSON
    crashed,        \* the process was ended by log.Fatal in the listener
    pc,             \* where each request goroutine stands
    ctr,            \* the goroutine's local Container
    err,            \* the error the goroutine's last call returned
    gpc,            \* where Gather stands
    tasks,          \* Gather's goroutines: id -> [c, st, emitted]
    wg,             \* Gather's sync.WaitGroup counter
    sink,           \* what reached the accumulator passed to Gather
    errlog,         \* the ids whose gathering error was logged
    gerr,           \* what Gather returned
    phase,          \* the plugin: "loading", "running", "stopping", "stopped"
                    \* or "startfailed"
    toload,         \* loadContainers: the files still to load
    loadlog,        \* the ids whose load failure was logged
    serving,        \* the API server accepts requests
    listed,         \* the slice each ListContainers call builds and returns
    rwmu,           \* ds.rwmu: the goroutine holding the write lock, and
                    \* the goroutines holding the read lock
    handler,        \* the HTTP request each goroutine serves, "" for none
    status          \* the HTTP status the handler has written, 0 for none

vars == <<ContainersDir, StatsdHost, containers, servers, disk, crashed,
          pc, ctr, err, gpc, tasks, wg, sink, errlog, gerr,
          phase, toload, loadlog, serving, listed, rwmu, handler, status>>

regVars == <<ContainersDir, StatsdHost, containers, servers, disk, crashed>>
gatherVars == <<gpc, tasks, wg, sink, errlog, gerr>>
startVars == <<phase, toload, loadlog, serving>>
apiVars == <<rwmu, handler, status>>

\* Nobody holds ds.rwmu.
Unlocked == [w |-> "", r |-> {}]

\* ds.rwmu.Lock() goes through when nobody holds the lock, ds.rwmu.RLock()
\* when nobody holds it for writing.  The code unlocks in the step in which
\* it locks, so these steps leave rwmu as they found it.
CanLock == rwmu = Unlocked
CanRLock == rwmu.w = ""

Rest == {"idle", "add_done", "rm_done", "list_done"}

----------------------------------------------------------------------------
\* Helpers on Go maps.

MapPut(m, k, v) == [x \in DOMAIN m \cup {k} |-> IF x = k THEN v ELSE m[x]]
MapDelete(m, k) == [x \in DOMAIN m \ {k} |-> m[x]]

\* A statsd server holds its UDP port from Start until Stop; port 0 is no port.
Live(h) == servers[h].port # 0
BoundPorts == {servers[h].port : h \in DOMAIN servers} \ {0}

checkPortSkipped(port) == TRUE

\* checkPort: a transient ListenUDP on the port succeeds iff nobody holds it.
checkPort(port) == port \notin BoundPorts

\* json.Marshal(ctr): Server is tagged "-", the rest is written (an empty
\* host or a zero port is left out and reads back as empty or zero).
Marshal(c) ==
    [container_id |-> c.Id, statsd_host |-> c.StatsdHost, statsd_port |-> c.StatsdPort]

DecodeNoPort(d) ==
    [Id |-> d.container_id, StatsdHost |-> d.statsd_host,
     StatsdPort |-> 0, Server |-> 0]

DecodeNoHost(d) ==
    [Id |-> d.container_id, StatsdHost |-> "",
     StatsdPort |-> d.statsd_port, Server |-> 0]

\* json Decode into a fresh Container: Server stays nil.
Decode(d) ==
    [Id |-> d.container_id, StatsdHost |-> d.statsd_host,
     StatsdPort |-> d.statsd_port, Server |-> 0]

\* GetContainer: the record and whether it was found.
GetContainer(cid) ==
    IF cid \in DOMAIN containers
        THEN [ctr |-> containers[cid], ok |-> TRUE]
        ELSE [ctr |-> NoCtr, ok |-> FALSE]

----------------------------------------------------------------------------
Init ==
    /\ ContainersDir \in {"", "/run/dcos/telegraf/dcos_statsd/containers"}
    /\ StatsdHost = "198.51.100.1"
    /\ containers = [x \in {} |-> NoCtr]
    /\ servers = <<>>
    /\ disk = [x \in {} |-> Marshal(NoCtr)]
    /\ crashed = FALSE
    /\ pc = [t \in Goroutines |-> "idle"]
    /\ ctr = [t \in Goroutines |-> NoCtr]
    /\ err = [t \in Goroutines |-> "nil"]
    /\ gpc = "idle"
    /\ tasks = [x \in {} |-> [c |-> NoCtr, st |-> "ready", emitted |-> {}]]
    /\ wg = 0
    /\ sink = {}
    /\ errlog = {}
    /\ gerr = "none"
    /\ phase = "running"
    /\ toload = {}
    /\ loadlog = {}
    /\ serving = TRUE
    /\ listed = [t \in Goroutines |-> {}]
    /\ rwmu = Unlocked
    /\ handler = [t \in Goroutines |-> ""]
    /\ status = [t \in Goroutines |-> 0]

\* A goroutine returns from its call with error e.
Return(t, at, e) ==
    /\ pc' = [pc EXCEPT ![t] = at]
    /\ err' = [err EXCEPT ![t] = e]

----------------------------------------------------------------------------
\* AddContainer

\* The call: the Container argument, its Server not started yet.  The
\* callers are the request goroutines of the API server, which serves from
\* the end of Start until Stop shuts it down.
AddCall(t, id, req) ==
    /\ ~crashed
    /\ UNCHANGED <<startVars, listed, apiVars>>
    /\ serving
    /\ pc[t] \in Rest
    /\ Len(servers) + Cardinality({u \in Goroutines : pc[u] \in {"add_check", "add_start"}})
          < MaxServers
    /\ pc' = [pc EXCEPT ![t] = "add_check"]
    /\ ctr' = [ctr EXCEPT ![t] =
                  [Id |-> id, StatsdHost |-> req.StatsdHost,
                   StatsdPort |-> req.StatsdPort, Server |-> 0]]
    /\ err' = [err EXCEPT ![t] = "nil"]
    /\ UNCHANGED <<regVars, gatherVars>>

AddCheckPortLocked(t) ==
    /\ ~crashed
    /\ pc[t] = "add_check"
    /\ CanLock
    /\ rwmu' = [w |-> t, r |-> {}]
    /\ IF ctr[t].StatsdPort # 0 /\ ~checkPort(ctr[t].StatsdPort)
          THEN Return(t, "add_done", "PortInUse")
          ELSE Return(t, "add_start", "nil")
    /\ UNCHANGED <<regVars, gatherVars, ctr, startVars, listed, handler, status>>

\* A port given by the caller is probed before the server is started.
AddCheckPort(t) ==
    /\ ~crashed
    /\ UNCHANGED <<startVars, listed, apiVars>>
    /\ pc[t] = "add_check"
    /\ IF ctr[t].StatsdPort # 0 /\ ~checkPort(ctr[t].StatsdPort)
          THEN Return(t, "add_done", "PortInUse")
          ELSE Return(t, "add_start", "nil")
    /\ UNCHANGED <<regVars, gatherVars, ctr>>

\* Statsd.Start on a free address: the server takes the port it was given,
\* or any free port when it was given 0.
StartedServers(id, port) ==
    {Append(servers, [cid |-> id, port |-> p, stops |-> 0]) :
        p \in IF port # 0 THEN {port} ELSE Ports \ BoundPorts}

\* Statsd.Start is asked for a port that is held: the listener ends the
\* process with log.Fatal.
StartCrashes(port) == port # 0 /\ port \in BoundPorts

AddStartRegisters(t) ==
    /\ ~crashed
    /\ UNCHANGED <<startVars, listed, apiVars>>
    /\ pc[t] = "add_start"
    /\ \/ /\ Return(t, "add_done", "StartFailed")
          /\ UNCHANGED <<regVars, ctr>>
       \/ /\ StartCrashes(ctr[t].StatsdPort)
          /\ crashed' = TRUE
          /\ UNCHANGED <<ContainersDir, StatsdHost, containers, servers, disk,
                         pc, ctr, err>>
       \/ /\ ~StartCrashes(ctr[t].StatsdPort)
          /\ servers' \in StartedServers(ctr[t].Id, ctr[t].StatsdPort)
          /\ ctr' = [ctr EXCEPT ![t].Server = Len(servers) + 1,
                                ![t].StatsdHost =
                                    IF @ = "" THEN StatsdHost ELSE @]
          /\ containers' = MapPut(containers, ctr[t].Id, ctr'[t])
          /\ Return(t, "add_port", "nil")
          /\ UNCHANGED <<ContainersDir, StatsdHost, disk, crashed>>
    /\ UNCHANGED <<gatherVars>>

\* ctr.Server.Start(acc), then the default host.
AddStart(t) ==
    /\ ~crashed
    /\ UNCHANGED <<startVars, listed, apiVars>>
    /\ pc[t] = "add_start"
    /\ \/ /\ Return(t, "add_done", "StartFailed")
          /\ UNCHANGED <<regVars, ctr>>
       \/ /\ StartCrashes(ctr[t].StatsdPort)
          /\ crashed' = TRUE
          /\ UNCHANGED <<ContainersDir, StatsdHost, containers, servers, disk,
                         pc, ctr, err>>
       \/ /\ ~StartCrashes(ctr[t].StatsdPort)
          /\ servers' \in StartedServers(ctr[t].Id, ctr[t].StatsdPort)
          /\ ctr' = [ctr EXCEPT ![t].Server = Len(servers) + 1,
                                ![t].StatsdHost =
                                    IF @ = "" THEN StatsdHost ELSE @]
          /\ Return(t, "add_port", "nil")
          /\ UNCHANGED <<ContainersDir, StatsdHost, containers, disk, crashed>>
    /\ UNCHANGED <<gatherVars>>

getStatsdServerPortAny(s) ==
    {[port |-> p, err |-> "nil"] : p \in Ports}
        \cup {[port |-> 0, err |-> "ProvisionTimeout"]}

\* getStatsdServerPort: the address the server published, or a timeout
\* after one second.
getStatsdServerPort(s) ==
    {[port |-> servers[s].port, err |-> "nil"],
     [port |-> 0, err |-> "ProvisionTimeout"]}

\* A server started on port 0 is asked for the port it bound.
AddGetPort(t) ==
    /\ ~crashed
    /\ UNCHANGED <<startVars, listed, apiVars>>
    /\ pc[t] = "add_port"
    /\ IF ctr[t].StatsdPort = 0
          THEN \E r \in getStatsdServerPort(ctr[t].Server) :
                  IF r.err # "nil"
                     THEN /\ Return(t, "add_done", r.err)
                          /\ UNCHANGED ctr
                     ELSE /\ ctr' = [ctr EXCEPT ![t].StatsdPort = r.port]
                          /\ Return(t, "add_write", "nil")
          ELSE /\ Return(t, "add_write", "nil")
               /\ UNCHANGED ctr
    /\ UNCHANGED <<regVars, gatherVars>>

\* ioutil.WriteFile(ContainersDir/Id): the file holds data, or the write fails.
WriteFile(id, data) ==
    {[disk |-> MapPut(disk, id, data), err |-> "nil"],
     [disk |-> disk, err |-> "PersistFailed"]}

AddWriteGoesOn(t) ==
    /\ ~crashed
    /\ UNCHANGED <<startVars, listed, apiVars>>
    /\ pc[t] = "add_write"
    /\ IF ContainersDir # ""
          THEN \E r \in WriteFile(ctr[t].Id, Marshal(ctr[t])) :
                  /\ disk' = r.disk
                  /\ Return(t, "add_insert", "nil")
          ELSE /\ Return(t, "add_insert", "nil")
               /\ UNCHANGED disk
    /\ UNCHANGED <<ContainersDir, StatsdHost, containers, servers, crashed,
                   gatherVars, ctr>>

\* The container definition is written to disk when a directory is set.
AddWrite(t) ==
    /\ ~crashed
    /\ UNCHANGED <<startVars, listed, apiVars>>
    /\ pc[t] = "add_write"
    /\ IF ContainersDir # ""
          THEN \E r \in WriteFile(ctr[t].Id, Marshal(ctr[t])) :
                  /\ disk' = r.disk
                  /\ IF r.err # "nil"
                        THEN Return(t, "add_done", r.err)
                        ELSE Return(t, "add_insert", "nil")
          ELSE /\ Return(t, "add_insert", "nil")
               /\ UNCHANGED disk
    /\ UNCHANGED <<ContainersDir, StatsdHost, containers, servers, crashed,
                   gatherVars, ctr>>

AddInsertNothing(t) ==
    /\ ~crashed
    /\ UNCHANGED <<startVars, listed, apiVars>>
    /\ pc[t] = "add_insert"
    /\ Return(t, "add_done", "nil")
    /\ UNCHANGED <<regVars, gatherVars, ctr>>

AddInsertReplace(t) ==
    /\ ~crashed
    /\ UNCHANGED <<startVars, listed, apiVars>>
    /\ pc[t] = "add_insert"
    /\ containers' = [x \in {ctr[t].Id} |-> ctr[t]]
    /\ Return(t, "add_done", "nil")
    /\ UNCHANGED <<ContainersDir, StatsdHost, servers, disk, crashed,
                   gatherVars, ctr>>

\* ds.containers[ctr.Id] = ctr under the write lock; the call returns &ctr.
AddInsert(t) ==
    /\ ~crashed
    /\ UNCHANGED <<startVars, listed, apiVars>>
    /\ pc[t] = "add_insert"
    /\ CanLock
    /\ containers' = MapPut(containers, ctr[t].Id, ctr[t])
    /\ Return(t, "add_done", "nil")
    /\ UNCHANGED <<ContainersDir, StatsdHost, servers, disk, crashed,
                   gatherVars, ctr>>

----------------------------------------------------------------------------
\* RemoveContainer

\* The call looks the container up; an unknown id is an error.
RemoveCall(t, id) ==
    /\ ~crashed
    /\ UNCHANGED <<startVars, listed, apiVars>>
    /\ serving
    /\ pc[t] \in Rest
    /\ CanRLock
    /\ LET g == GetContainer(id) IN
          /\ ctr' = [ctr EXCEPT ![t] = IF g.ok THEN g.ctr ELSE [NoCtr EXCEPT !.Id = id]]
          /\ IF g.ok
                THEN Return(t, "rm_file", "nil")
                ELSE Return(t, "rm_done", "NotFound")
    /\ UNCHANGED <<regVars, gatherVars>>

\* os.Remove(ContainersDir/Id): fails when the file is not there or cannot
\* be removed.
osRemove(id) ==
    IF id \in DOMAIN disk
        THEN {[disk |-> MapDelete(disk, id), err |-> "nil"],
              [disk |-> disk, err |-> "DeleteFailed"]}
        ELSE {[disk |-> disk, err |-> "DeleteFailed"]}

RemoveFileGoesOn(t) ==
    /\ ~crashed
    /\ UNCHANGED <<startVars, listed, apiVars>>
    /\ pc[t] = "rm_file"
    /\ IF ContainersDir # ""
          THEN \E r \in osRemove(ctr[t].Id) :
                  /\ disk' = r.disk
                  /\ Return(t, "rm_stop", r.err)
          ELSE /\ Return(t, "rm_stop", "nil")
               /\ UNCHANGED disk
    /\ UNCHANGED <<ContainersDir, StatsdHost, containers, servers, crashed,
                   gatherVars, ctr>>

\* The container file is removed first; a failure ends the call.
RemoveFile(t) ==
    /\ ~crashed
    /\ UNCHANGED <<startVars, listed, apiVars>>
    /\ pc[t] = "rm_file"
    /\ IF ContainersDir # ""
          THEN \E r \in osRemove(ctr[t].Id) :
                  /\ disk' = r.disk
                  /\ IF r.err # "nil"
                        THEN Return(t, "rm_done", r.err)
                        ELSE Return(t, "rm_stop", "nil")
          ELSE /\ Return(t, "rm_stop", "nil")
               /\ UNCHANGED disk
    /\ UNCHANGED <<ContainersDir, StatsdHost, containers, servers, crashed,
                   gatherVars, ctr>>

\* Statsd.Stop: the server closes its socket.
StatsdStop(s) == [servers EXCEPT ![s].stops = @ + 1, ![s].port = 0]

\* ctr.Server.Stop()
RemoveStop(t) ==
    /\ ~crashed
    /\ UNCHANGED <<startVars, listed, apiVars>>
    /\ pc[t] = "rm_stop"
    /\ servers' = StatsdStop(ctr[t].Server)
    /\ Return(t, "rm_delete", "nil")
    /\ UNCHANGED <<ContainersDir, StatsdHost, containers, disk, crashed,
                   gatherVars, ctr>>

RemoveDeleteKeeps(t) ==
    /\ ~crashed
    /\ UNCHANGED <<startVars, listed, apiVars>>
    /\ pc[t] = "rm_delete"
    /\ Return(t, "rm_done", "nil")
    /\ UNCHANGED <<regVars, gatherVars, ctr>>

\* delete(ds.containers, c.Id) under the write lock.
RemoveDelete(t) ==
    /\ ~crashed
    /\ UNCHANGED <<startVars, listed, apiVars>>
    /\ pc[t] = "rm_delete"
    /\ CanLock
    /\ containers' = MapDelete(containers, ctr[t].Id)
    /\ Return(t, "rm_done", "nil")
    /\ UNCHANGED <<ContainersDir, StatsdHost, servers, disk, crashed,
                   gatherVars, ctr>>

----------------------------------------------------------------------------
\* Gather and the tagging accumulator

ctagsIdOnly(CId, tags) == [k \in {"container_id"} |-> CId]

\* Accumulator.ctags: the tags handed on to the inner accumulator.
ctags(CId, tags) ==
    LET result == [k \in {"container_id"} |-> CId] IN
    [k \in DOMAIN result \cup DOMAIN tags |->
        IF k \in DOMAIN tags THEN tags[k] ELSE result[k]]

\* Accumulator.AddFields and its siblings: the metric goes to the inner
\* accumulator with ctags(tags).
AddFields(acc, CId, tags) == acc \cup {[cid |-> CId, tags |-> ctags(CId, tags)]}

\* The calls a listener makes on the tagging accumulator: the method, the
\* measurement, the fields, the tag map and the optional timestamp.
MaxMetrics == 1
Methods == {"AddFields", "AddGauge", "AddCounter", "AddSummary", "AddHistogram"}
TagKeys == {"container_id", "host"}
TagMaps == UNION {[K -> {"other"}] : K \in SUBSET TagKeys}
Calls ==
    [method : Methods, measurement : {"statsd_m"}, fields : {[value |-> 1]},
     tags : TagMaps, t : {<<>>, <<1>>}]

\* Accumulator.AddFields, AddGauge, AddCounter, AddSummary, AddHistogram:
\* the same method of the inner accumulator is called with the same
\* measurement, fields and timestamp and with ctags(tags).
Forward(CId, call) == [call EXCEPT !.tags = ctags(CId, call.tags)]

\* A listener calls one of these methods on the accumulator made for
\* container id; tasks[id].emitted is the tag map as the listener holds it
\* after the call, which ctags only reads.
AccumulatorCall(id, call) ==
    /\ ~crashed
    /\ Cardinality(sink) < MaxMetrics
    /\ sink' = sink \cup {Forward(id, call)}
    /\ tasks' = MapPut(tasks, id, [c |-> [NoCtr EXCEPT !.Id = id], st |-> "ok",
                                   emitted |-> {call.tags}])
    /\ UNCHANGED <<regVars, pc, ctr, err, gpc, wg, errlog, gerr,
                   startVars, listed, apiVars>>

\* Statsd.Gather(cacc): the metrics it adds to cacc and the error it returns.
Collects ==
    {[emits |-> {m}, err |-> "nil"] : m \in EmittedTags}
        \cup {[emits |-> {}, err |-> "error"]}

\* Gather is called with a fresh accumulator: one goroutine per container
\* is started under the read lock.
GatherCall ==
    /\ ~crashed
    /\ UNCHANGED <<startVars, listed, apiVars>>
    /\ phase = "running"
    /\ gpc \in {"idle", "done"}
    /\ CanRLock
    /\ gpc' = "wait"
    /\ tasks' = [id \in DOMAIN containers |->
                    [c |-> containers[id], st |-> "ready", emitted |-> {}]]
    /\ wg' = Cardinality(DOMAIN containers)
    /\ sink' = {}
    /\ errlog' = {}
    /\ gerr' = "none"
    /\ UNCHANGED <<regVars, pc, ctr, err>>

GatherTaskCancelling(id) ==
    /\ ~crashed
    /\ UNCHANGED <<startVars, listed, apiVars>>
    /\ gpc = "wait"
    /\ id \in DOMAIN tasks
    /\ tasks[id].st = "ready"
    /\ \E o \in Collects :
          /\ sink' = IF o.emits = {} THEN sink
                     ELSE AddFields(sink, tasks[id].c.Id, CHOOSE m \in o.emits : TRUE)
          /\ tasks' = [tasks EXCEPT
                          ![id].st = IF o.err = "nil" THEN "ok" ELSE "failed",
                          ![id].emitted = o.emits]
          /\ errlog' = IF o.err = "nil" THEN errlog ELSE errlog \cup {tasks[id].c.Id}
          /\ wg' = IF o.err = "nil" THEN wg - 1 ELSE 0
    /\ UNCHANGED <<regVars, pc, ctr, err, gpc, gerr>>

\* One goroutine: c.Server.Gather(cacc) with cacc tagging for c.Id; an error
\* is logged; wg.Done is deferred.
GatherTask(id) ==
    /\ ~crashed
    /\ UNCHANGED <<startVars, listed, apiVars>>
    /\ gpc = "wait"
    /\ id \in DOMAIN tasks
    /\ tasks[id].st = "ready"
    /\ \E o \in Collects :
          /\ sink' = IF o.emits = {} THEN sink
                     ELSE AddFields(sink, tasks[id].c.Id, CHOOSE m \in o.emits : TRUE)
          /\ tasks' = [tasks EXCEPT
                          ![id].st = IF o.err = "nil" THEN "ok" ELSE "failed",
                          ![id].emitted = o.emits]
          /\ errlog' = IF o.err = "nil" THEN errlog ELSE errlog \cup {tasks[id].c.Id}
    /\ wg' = wg - 1
    /\ UNCHANGED <<regVars, pc, ctr, err, gpc, gerr>>

GatherResultAggregated ==
    IF \E id \in DOMAIN tasks : tasks[id].st = "failed" THEN "error" ELSE "nil"

\* What Gather returns once wg.Wait is over.
GatherResult == "nil"

GatherWaitNoJoin ==
    /\ ~crashed
    /\ UNCHANGED <<startVars, listed, apiVars>>
    /\ gpc = "wait"
    /\ gpc' = "done"
    /\ gerr' = GatherResult
    /\ UNCHANGED <<regVars, pc, ctr, err, tasks, wg, sink, errlog>>

\* wg.Wait() returns when the counter is zero; Gather returns.
GatherWait ==
    /\ ~crashed
    /\ UNCHANGED <<startVars, listed, apiVars>>
    /\ gpc = "wait"
    /\ wg = 0
    /\ gpc' = "done"
    /\ gerr' = GatherResult
    /\ UNCHANGED <<regVars, pc, ctr, err, tasks, wg, sink, errlog>>

Gathering ==
    \/ GatherCall
    \/ \E id \in Ids : GatherTask(id)
    \/ GatherWait

----------------------------------------------------------------------------
\* The handlers of the API

\* The body of a 201: the record as JSON, which leaves the Server out.
Body(c) == [c EXCEPT !.Server = 0]

\* Where a request goroutine is between two requests.  Of a request that is
\* over the model keeps the status and, for a 201, the body.
HttpRest == {"idle", "http_done"}

PostCallNoCheck(t, id, req) ==
    /\ ~crashed
    /\ serving
    /\ pc[t] \in HttpRest
    /\ Len(servers) + Cardinality({u \in Goroutines : pc[u] \in {"add_check", "add_start"}})
            < MaxServers
    /\ handler' = [handler EXCEPT ![t] = "POST"]
    /\ ctr' = [ctr EXCEPT ![t] =
                  [Id |-> id, StatsdHost |-> req.StatsdHost,
                   StatsdPort |-> req.StatsdPort, Server |-> 0]]
    /\ err' = [err EXCEPT ![t] = "nil"]
    /\ pc' = [pc EXCEPT ![t] = "add_check"]
    /\ status' = [status EXCEPT ![t] = 0]
    /\ UNCHANGED <<regVars, gatherVars, startVars, listed, rwmu>>

\* POST /container with a body that decodes: a container that exists is
\* answered with a redirect to /container/{id}, any other is handed to
\* AddContainer.
PostCall(t, id, req) ==
    /\ ~crashed
    /\ serving
    /\ pc[t] \in HttpRest
    /\ CanRLock
    /\ GetContainer(id).ok
          \/ Len(servers) + Cardinality({u \in Goroutines : pc[u] \in {"add_check", "add_start"}})
                < MaxServers
    /\ handler' = [handler EXCEPT ![t] = "POST"]
    /\ err' = [err EXCEPT ![t] = "nil"]
    /\ IF GetContainer(id).ok
          THEN /\ pc' = [pc EXCEPT ![t] = "http_done"]
               /\ status' = [status EXCEPT ![t] = 303]
               /\ ctr' = [ctr EXCEPT ![t] = NoCtr]
          ELSE /\ pc' = [pc EXCEPT ![t] = "add_check"]
               /\ status' = [status EXCEPT ![t] = 0]
               /\ ctr' = [ctr EXCEPT ![t] =
                             [Id |-> id, StatsdHost |-> req.StatsdHost,
                              StatsdPort |-> req.StatsdPort, Server |-> 0]]
    /\ UNCHANGED <<regVars, gatherVars, startVars, listed, rwmu>>

\* POST /container with a body that does not decode.
PostUndecodable(t) ==
    /\ ~crashed
    /\ serving
    /\ pc[t] \in HttpRest
    /\ handler' = [handler EXCEPT ![t] = "POST"]
    /\ ctr' = [ctr EXCEPT ![t] = NoCtr]
    /\ err' = [err EXCEPT ![t] = "nil"]
    /\ pc' = [pc EXCEPT ![t] = "http_done"]
    /\ status' = [status EXCEPT ![t] = 400]
    /\ UNCHANGED <<regVars, gatherVars, startVars, listed, rwmu>>

\* AddContainer has returned to the handler: 500 on an error, else 201 with
\* the record.
PostRespond(t) ==
    /\ ~crashed
    /\ handler[t] = "POST"
    /\ pc[t] = "add_done"
    /\ pc' = [pc EXCEPT ![t] = "http_done"]
    /\ status' = [status EXCEPT ![t] = IF err[t] # "nil" THEN 500 ELSE 201]
    /\ ctr' = [ctr EXCEPT ![t] = IF err[t] # "nil" THEN NoCtr ELSE Body(@)]
    /\ err' = [err EXCEPT ![t] = "nil"]
    /\ UNCHANGED <<regVars, gatherVars, startVars, listed, rwmu, handler>>

\* DELETE /container/{id}: 404 for a container that is not there, else 202
\* is written before RemoveContainer is called.
DeleteCall(t, id) ==
    /\ ~crashed
    /\ serving
    /\ pc[t] \in HttpRest
    /\ CanRLock
    /\ handler' = [handler EXCEPT ![t] = "DELETE"]
    /\ err' = [err EXCEPT ![t] = "nil"]
    /\ LET g == GetContainer(id) IN
          /\ ctr' = [ctr EXCEPT ![t] = IF g.ok THEN g.ctr ELSE NoCtr]
          /\ IF g.ok
                THEN /\ pc' = [pc EXCEPT ![t] = "del_remove"]
                     /\ status' = [status EXCEPT ![t] = 202]
                ELSE /\ pc' = [pc EXCEPT ![t] = "http_done"]
                     /\ status' = [status EXCEPT ![t] = 404]
    /\ UNCHANGED <<regVars, gatherVars, startVars, listed, rwmu>>

\* The handler calls c.RemoveContainer(*ctr), which looks the container up
\* again.
DeleteRemove(t) ==
    /\ ~crashed
    /\ pc[t] = "del_remove"
    /\ CanRLock
    /\ LET g == GetContainer(ctr[t].Id) IN
          /\ ctr' = [ctr EXCEPT ![t] = IF g.ok THEN g.ctr ELSE [NoCtr EXCEPT !.Id = ctr[t].Id]]
          /\ IF g.ok
                THEN Return(t, "rm_file", "nil")
                ELSE Return(t, "rm_done", "NotFound")
    /\ UNCHANGED <<regVars, gatherVars, startVars, listed, apiVars>>

DeleteReturnReports(t) ==
    /\ ~crashed
    /\ handler[t] = "DELETE"
    /\ pc[t] = "rm_done"
    /\ pc' = [pc EXCEPT ![t] = "http_done"]
    /\ status' = [status EXCEPT ![t] = IF err[t] # "nil" THEN 500 ELSE 202]
    /\ ctr' = [ctr EXCEPT ![t] = NoCtr]
    /\ err' = [err EXCEPT ![t] = "nil"]
    /\ UNCHANGED <<regVars, gatherVars, startVars, listed, rwmu, handler>>

\* RemoveContainer has returned to the handler: an error is logged, the
\* response stays as it was written.
DeleteReturn(t) ==
    /\ ~crashed
    /\ handler[t] = "DELETE"
    /\ pc[t] = "rm_done"
    /\ pc' = [pc EXCEPT ![t] = "http_done"]
    /\ ctr' = [ctr EXCEPT ![t] = NoCtr]
    /\ err' = [err EXCEPT ![t] = "nil"]
    /\ UNCHANGED <<regVars, gatherVars, startVars, listed, apiVars>>

\* The POST requests the API server serves on the goroutines T.
Posting(T) ==
    \/ \E t \in T, id \in Ids, req \in Requests : PostCall(t, id, req)
    \/ \E t \in T : PostUndecodable(t)
    \/ \E t \in T : AddCheckPort(t)
    \/ \E t \in T : AddStart(t)
    \/ \E t \in T : AddGetPort(t)
    \/ \E t \in T : AddWrite(t)
    \/ \E t \in T : AddInsert(t)
    \/ \E t \in T : PostRespond(t)

\* The DELETE requests the API server serves on the goroutines T.
Deleting(T) ==
    \/ \E t \in T, id \in Ids : DeleteCall(t, id)
    \/ \E t \in T : DeleteRemove(t)
    \/ \E t \in T : RemoveFile(t)
    \/ \E t \in T : RemoveStop(t)
    \/ \E t \in T : RemoveDelete(t)
    \/ \E t \in T : DeleteReturn(t)

Serving(T) == Posting(T) \/ Deleting(T)

----------------------------------------------------------------------------
\* ListContainers

\* The call: ctrs := []containers.Container{}.  No lock is taken.
ListCall(t) ==
    /\ ~crashed
    /\ serving
    /\ pc[t] \in Rest
    /\ pc' = [pc EXCEPT ![t] = "list_iter"]
    /\ err' = [err EXCEPT ![t] = "nil"]
    /\ listed' = [listed EXCEPT ![t] = {}]
    /\ UNCHANGED <<regVars, gatherVars, apiVars, startVars, ctr>>

\* One turn of the range over ds.containers: a container the range has not
\* produced yet is copied into the slice.
ListNext(t) ==
    /\ ~crashed
    /\ pc[t] = "list_iter"
    /\ \E id \in DOMAIN containers \ {c.Id : c \in listed[t]} :
          listed' = [listed EXCEPT ![t] = @ \cup {containers[id]}]
    /\ UNCHANGED <<regVars, gatherVars, apiVars, startVars, pc, ctr, err>>

\* The range is over and the slice is returned.
ListReturn(t) ==
    /\ ~crashed
    /\ pc[t] = "list_iter"
    /\ DOMAIN containers \subseteq {c.Id : c \in listed[t]}
    /\ pc' = [pc EXCEPT ![t] = "list_done"]
    /\ UNCHANGED <<regVars, gatherVars, apiVars, startVars, ctr, err, listed>>

\* The range reads the map while another goroutine writes it: the Go runtime
\* may find the write under way and end the process.
ListRace(t) ==
    /\ ~crashed
    /\ pc[t] = "list_iter"
    /\ \E u \in Goroutines \ {t} : pc[u] \in {"add_insert", "rm_delete"}
    /\ crashed' = TRUE
    /\ UNCHANGED <<ContainersDir, StatsdHost, containers, servers, disk,
                   gatherVars, apiVars, startVars, pc, ctr, err, listed>>

Listing(T) ==
    \/ \E t \in T : ListCall(t)
    \/ \E t \in T : ListNext(t)
    \/ \E t \in T : ListReturn(t)
    \/ \E t \in T : ListRace(t)

----------------------------------------------------------------------------
\* Stop

StopShutdownStillServes ==
    /\ ~crashed
    /\ phase = "running"
    /\ phase' = "stopping"
    /\ UNCHANGED <<regVars, gatherVars, apiVars, pc, ctr, err, toload, loadlog, serving, listed>>

\* ds.apiServer.Shutdown(ctx): the server closes its listeners, so no request
\* is accepted from here on; Shutdown returns when the open requests are
\* over or when Timeout has passed, whichever is first.
StopShutdown ==
    /\ ~crashed
    /\ phase = "running"
    /\ phase' = "stopping"
    /\ serving' = FALSE
    /\ UNCHANGED <<regVars, gatherVars, apiVars, pc, ctr, err, toload, loadlog, listed>>

StopServersPurges ==
    /\ ~crashed
    /\ phase = "stopping"
    /\ CanRLock
    /\ LET H == {containers[id].Server : id \in DOMAIN containers} IN
          servers' = [h \in DOMAIN servers |->
                         IF h \in H THEN StatsdStop(h)[h] ELSE servers[h]]
    /\ disk' = [x \in {} |-> Marshal(NoCtr)]
    /\ phase' = "stopped"
    /\ UNCHANGED <<ContainersDir, StatsdHost, containers, crashed,
                   gatherVars, apiVars, pc, ctr, err, toload, loadlog, serving, listed>>

\* The loop under the read lock: c.Server.Stop() for every container of the
\* map.  The map itself is left as it is.
StopServers ==
    /\ ~crashed
    /\ phase = "stopping"
    /\ CanRLock
    /\ LET H == {containers[id].Server : id \in DOMAIN containers} IN
          servers' = [h \in DOMAIN servers |->
                         IF h \in H THEN StatsdStop(h)[h] ELSE servers[h]]
    /\ phase' = "stopped"
    /\ UNCHANGED <<ContainersDir, StatsdHost, containers, disk, crashed,
                   gatherVars, apiVars, pc, ctr, err, toload, loadlog, serving, listed>>

Stopping == StopShutdown \/ StopServers

----------------------------------------------------------------------------
\* Start and loadContainers

\* ioutil.ReadDir(ContainersDir): the names of the files, or an error.
ReadDir ==
    {[files |-> DOMAIN disk, err |-> "nil"], [files |-> {}, err |-> "ReadDirFailed"]}

StartLoadsAlways ==
    /\ crashed \/ phase \in {"stopped", "startfailed"}
    /\ containers' = [x \in {} |-> NoCtr]
    /\ servers' = <<>>
    /\ crashed' = FALSE
    /\ pc' = [t \in Goroutines |-> "idle"]
    /\ ctr' = [t \in Goroutines |-> NoCtr]
    /\ err' = [t \in Goroutines |-> "nil"]
    /\ gpc' = "idle"
    /\ tasks' = [x \in {} |-> [c |-> NoCtr, st |-> "ready", emitted |-> {}]]
    /\ wg' = 0
    /\ sink' = {}
    /\ errlog' = {}
    /\ gerr' = "none"
    /\ listed' = [t \in Goroutines |-> {}]
    /\ rwmu' = Unlocked
    /\ handler' = [t \in Goroutines |-> ""]
    /\ status' = [t \in Goroutines |-> 0]
    /\ loadlog' = {}
    /\ serving' = FALSE
    /\ \E r \in ReadDir :
          /\ toload' = r.files
          /\ phase' = IF r.err # "nil" THEN "startfailed" ELSE "loading"
    /\ UNCHANGED <<ContainersDir, StatsdHost, disk>>

StartServesAtOnce ==
    /\ crashed \/ phase \in {"stopped", "startfailed"}
    /\ containers' = [x \in {} |-> NoCtr]
    /\ servers' = <<>>
    /\ crashed' = FALSE
    /\ pc' = [t \in Goroutines |-> "idle"]
    /\ ctr' = [t \in Goroutines |-> NoCtr]
    /\ err' = [t \in Goroutines |-> "nil"]
    /\ gpc' = "idle"
    /\ tasks' = [x \in {} |-> [c |-> NoCtr, st |-> "ready", emitted |-> {}]]
    /\ wg' = 0
    /\ sink' = {}
    /\ errlog' = {}
    /\ gerr' = "none"
    /\ listed' = [t \in Goroutines |-> {}]
    /\ rwmu' = Unlocked
    /\ handler' = [t \in Goroutines |-> ""]
    /\ status' = [t \in Goroutines |-> 0]
    /\ loadlog' = {}
    /\ IF ContainersDir # ""
          THEN \E r \in ReadDir :
                  /\ toload' = r.files
                  /\ phase' = IF r.err # "nil" THEN "startfailed" ELSE "loading"
                  /\ serving' = TRUE
          ELSE /\ toload' = {}
               /\ phase' = "running"
               /\ serving' = TRUE
    /\ UNCHANGED <<ContainersDir, StatsdHost, disk>>

\* The process is over (after Stop, after a failed Start, or ended by
\* log.Fatal) and a new process calls Start on a new DCOSStatsd with the same
\* configuration: no container, no server, no goroutine of the old process
\* is left.  With a ContainersDir the files are listed and loaded, and Start
\* returns the error of ReadDir; without one nothing is read.
Start ==
    /\ crashed \/ phase \in {"stopped", "startfailed"}
    /\ containers' = [x \in {} |-> NoCtr]
    /\ servers' = <<>>
    /\ crashed' = FALSE
    /\ pc' = [t \in Goroutines |-> "idle"]
    /\ ctr' = [t \in Goroutines |-> NoCtr]
    /\ err' = [t \in Goroutines |-> "nil"]
    /\ gpc' = "idle"
    /\ tasks' = [x \in {} |-> [c |-> NoCtr, st |-> "ready", emitted |-> {}]]
    /\ wg' = 0
    /\ sink' = {}
    /\ errlog' = {}
    /\ gerr' = "none"
    /\ listed' = [t \in Goroutines |-> {}]
    /\ rwmu' = Unlocked
    /\ handler' = [t \in Goroutines |-> ""]
    /\ status' = [t \in Goroutines |-> 0]
    /\ loadlog' = {}
    /\ IF ContainersDir # ""
          THEN \E r \in ReadDir :
                  /\ toload' = r.files
                  /\ phase' = IF r.err # "nil" THEN "startfailed" ELSE "loading"
                  /\ serving' = FALSE
          ELSE /\ toload' = {}
               /\ phase' = "running"
               /\ serving' = TRUE
    /\ UNCHANGED <<ContainersDir, StatsdHost, disk>>

\* os.Open and json Decode of one file: both can fail.
ReadFile(id) ==
    {[ctr |-> Decode(disk[id]), err |-> "nil"],
     [ctr |-> NoCtr, err |-> "OpenFailed"],
     [ctr |-> NoCtr, err |-> "DecodeFailed"]}

LoadFileGivesUp(id) ==
    /\ ~crashed
    /\ phase = "loading"
    /\ pc[Main] = "idle"
    /\ id \in toload
    /\ \E r \in ReadFile(id) :
          IF r.err # "nil"
             THEN /\ loadlog' = loadlog \cup {id}
                  /\ toload' = {}
                  /\ phase' = "startfailed"
                  /\ UNCHANGED <<pc, ctr, err>>
             ELSE /\ pc' = [pc EXCEPT ![Main] = "add_check"]
                  /\ ctr' = [ctr EXCEPT ![Main] = r.ctr]
                  /\ err' = [err EXCEPT ![Main] = "nil"]
                  /\ toload' = toload \ {id}
                  /\ UNCHANGED <<loadlog, phase>>
    /\ UNCHANGED <<regVars, gatherVars, apiVars, serving, listed>>

\* One turn of the loop of loadContainers: a file that cannot be opened or
\* decoded is logged and skipped, any other is handed to AddContainer.
LoadFile(id) ==
    /\ ~crashed
    /\ phase = "loading"
    /\ pc[Main] = "idle"
    /\ id \in toload
    /\ toload' = toload \ {id}
    /\ \E r \in ReadFile(id) :
          IF r.err # "nil"
             THEN /\ loadlog' = loadlog \cup {id}
                  /\ UNCHANGED <<pc, ctr, err>>
             ELSE /\ pc' = [pc EXCEPT ![Main] = "add_check"]
                  /\ ctr' = [ctr EXCEPT ![Main] = r.ctr]
                  /\ err' = [err EXCEPT ![Main] = "nil"]
                  /\ UNCHANGED loadlog
    /\ UNCHANGED <<regVars, gatherVars, apiVars, phase, serving, listed>>

\* AddContainer has returned to the loop: its error is logged and the loop
\* goes on.
LoadAdded ==
    /\ ~crashed
    /\ phase = "loading"
    /\ pc[Main] = "add_done"
    /\ loadlog' = IF err[Main] # "nil" THEN loadlog \cup {ctr[Main].Id} ELSE loadlog
    /\ pc' = [pc EXCEPT ![Main] = "idle"]
    /\ UNCHANGED <<regVars, gatherVars, apiVars, ctr, err, phase, toload, serving, listed>>

\* loadContainers returns nil; Start starts the API server and returns nil.
StartServes ==
    /\ ~crashed
    /\ phase = "loading"
    /\ pc[Main] = "idle"
    /\ toload = {}
    /\ phase' = "running"
    /\ serving' = TRUE
    /\ UNCHANGED <<regVars, gatherVars, apiVars, pc, ctr, err, toload, loadlog, listed>>

Loading ==
    \/ \E id \in Ids : LoadFile(id)
    \/ AddCheckPort(Main)
    \/ AddStart(Main)
    \/ AddGetPort(Main)
    \/ AddWrite(Main)
    \/ AddInsert(Main)
    \/ LoadAdded
    \/ StartServes

----------------------------------------------------------------------------
\* ds.rwmu taken and released step by step.  A goroutine at "add_insert" or
\* "rm_delete" has called Lock and waits for it; sync.RWMutex lets no new
\* reader in while a writer waits.

WantsLock == \E u \in Goroutines : pc[u] \in {"add_insert", "rm_delete"}

\* ds.rwmu.RLock() and RUnlock() by g.
RLock(g) ==
    /\ rwmu.w = ""
    /\ ~WantsLock
    /\ rwmu' = [rwmu EXCEPT !.r = @ \cup {g}]

RUnlock(g) == rwmu' = [rwmu EXCEPT !.r = @ \ {g}]

\* ds.rwmu.Lock() and Unlock() by g.
Lock(g) ==
    /\ rwmu = Unlocked
    /\ rwmu' = [w |-> g, r |-> {}]

Unlock(g) ==
    /\ rwmu.w = g
    /\ rwmu' = Unlocked

\* AddContainer: ds.rwmu.Lock()
AddLock(t) ==
    /\ ~crashed
    /\ pc[t] = "add_insert"
    /\ Lock(t)
    /\ pc' = [pc EXCEPT ![t] = "add_locked"]
    /\ UNCHANGED <<regVars, gatherVars, startVars, listed, handler, status, ctr, err>>

\* AddContainer: ds.containers[ctr.Id] = ctr; ds.rwmu.Unlock(); return &ctr
AddInsertUnlock(t) ==
    /\ ~crashed
    /\ pc[t] = "add_locked"
    /\ Unlock(t)
    /\ containers' = MapPut(containers, ctr[t].Id, ctr[t])
    /\ Return(t, "add_done", "nil")
    /\ UNCHANGED <<ContainersDir, StatsdHost, servers, disk, crashed,
                   gatherVars, startVars, listed, handler, status, ctr>>

\* RemoveContainer is called; it calls GetContainer.
RemoveEnter(t, id) ==
    /\ ~crashed
    /\ serving
    /\ pc[t] \in Rest
    /\ pc' = [pc EXCEPT ![t] = "rm_get"]
    /\ ctr' = [ctr EXCEPT ![t] = [NoCtr EXCEPT !.Id = id]]
    /\ err' = [err EXCEPT ![t] = "nil"]
    /\ UNCHANGED <<regVars, gatherVars, startVars, listed, apiVars>>

\* GetContainer is called by a request of its own.
GetEnter(t, id) ==
    /\ ~crashed
    /\ serving
    /\ pc[t] \in Rest
    /\ pc' = [pc EXCEPT ![t] = "get_call"]
    /\ ctr' = [ctr EXCEPT ![t] = [NoCtr EXCEPT !.Id = id]]
    /\ err' = [err EXCEPT ![t] = "nil"]
    /\ UNCHANGED <<regVars, gatherVars, startVars, listed, apiVars>>

\* GetContainer: ds.rwmu.RLock()
GetRLock(t) ==
    /\ ~crashed
    /\ pc[t] \in {"rm_get", "get_call"}
    /\ RLock(t)
    /\ pc' = [pc EXCEPT ![t] = IF pc[t] = "rm_get" THEN "rm_got" ELSE "get_got"]
    /\ UNCHANGED <<regVars, gatherVars, startVars, listed, handler, status, ctr, err>>

\* GetContainer: the read, ds.rwmu.RUnlock() and the return to
\* RemoveContainer, which goes on with the record or returns not found.
RemoveLookup(t) ==
    /\ ~crashed
    /\ pc[t] = "rm_got"
    /\ RUnlock(t)
    /\ LET g == GetContainer(ctr[t].Id) IN
          /\ ctr' = [ctr EXCEPT ![t] = IF g.ok THEN g.ctr ELSE @]
          /\ IF g.ok
                THEN Return(t, "rm_file", "nil")
                ELSE Return(t, "rm_done", "NotFound")
    /\ UNCHANGED <<regVars, gatherVars, startVars, listed, handler, status>>

\* GetContainer: the read, ds.rwmu.RUnlock() and the return to the caller.
GetReturn(t) ==
    /\ ~crashed
    /\ pc[t] = "get_got"
    /\ RUnlock(t)
    /\ LET g == GetContainer(ctr[t].Id) IN
          /\ ctr' = [ctr EXCEPT ![t] = IF g.ok THEN g.ctr ELSE @]
          /\ Return(t, "idle", IF g.ok THEN "nil" ELSE "NotFound")
    /\ UNCHANGED <<regVars, gatherVars, startVars, listed, handler, status>>

\* RemoveContainer: ds.rwmu.Lock()
RemoveLock(t) ==
    /\ ~crashed
    /\ pc[t] = "rm_delete"
    /\ Lock(t)
    /\ pc' = [pc EXCEPT ![t] = "rm_locked"]
    /\ UNCHANGED <<regVars, gatherVars, startVars, listed, handler, status, ctr, err>>

\* RemoveContainer: delete(ds.containers, c.Id); ds.rwmu.Unlock(); return nil
RemoveDeleteUnlock(t) ==
    /\ ~crashed
    /\ pc[t] = "rm_locked"
    /\ Unlock(t)
    /\ containers' = MapDelete(containers, ctr[t].Id)
    /\ Return(t, "rm_done", "nil")
    /\ UNCHANGED <<ContainersDir, StatsdHost, servers, disk, crashed,
                   gatherVars, startVars, listed, handler, status, ctr>>

\* Gather: ds.rwmu.RLock()
GatherRLock ==
    /\ ~crashed
    /\ phase = "running"
    /\ gpc \in {"idle", "done"}
    /\ RLock("gather")
    /\ gpc' = "rlocked"
    /\ UNCHANGED <<regVars, pc, ctr, err, tasks, wg, sink, errlog, gerr,
                   startVars, listed, handler, status>>

\* Gather: the loop that starts one goroutine per container, and
\* ds.rwmu.RUnlock().
GatherSpawn ==
    /\ ~crashed
    /\ gpc = "rlocked"
    /\ RUnlock("gather")
    /\ gpc' = "wait"
    /\ tasks' = [id \in DOMAIN containers |->
                    [c |-> containers[id], st |-> "ready", emitted |-> {}]]
    /\ wg' = Cardinality(DOMAIN containers)
    /\ sink' = {}
    /\ errlog' = {}
    /\ gerr' = "none"
    /\ UNCHANGED <<regVars, pc, ctr, err, startVars, listed, handler, status>>

\* Stop: ds.rwmu.RLock() after Shutdown has returned.
StopRLock ==
    /\ ~crashed
    /\ phase = "stopping"
    /\ RLock("stop")
    /\ phase' = "stopping_locked"
    /\ UNCHANGED <<regVars, gatherVars, pc, ctr, err, toload, loadlog, serving,
                   listed, handler, status>>

\* Stop: c.Server.Stop() for every container of the map, and
\* ds.rwmu.RUnlock().
StopLoop ==
    /\ ~crashed
    /\ phase = "stopping_locked"
    /\ RUnlock("stop")
    /\ LET H == {containers[id].Server : id \in DOMAIN containers} IN
          servers' = [h \in DOMAIN servers |->
                         IF h \in H THEN StatsdStop(h)[h] ELSE servers[h]]
    /\ phase' = "stopped"
    /\ UNCHANGED <<ContainersDir, StatsdHost, containers, disk, crashed,
                   gatherVars, pc, ctr, err, toload, loadlog, serving, listed,
                   handler, status>>

\* The steps in which a goroutine takes ds.rwmu.
Acquire(t) == AddLock(t) \/ RemoveLock(t) \/ GetRLock(t)

\* The other steps of a call under way.
Proceed(t) ==
    \/ AddCheckPort(t)
    \/ AddStart(t)
    \/ AddGetPort(t)
    \/ AddWrite(t)
    \/ AddInsertUnlock(t)
    \/ RemoveLookup(t)
    \/ RemoveFile(t)
    \/ RemoveStop(t)
    \/ RemoveDeleteUnlock(t)
    \/ GetReturn(t)
    \/ ListNext(t)
    \/ ListReturn(t)

----------------------------------------------------------------------------
\* The requests of the goroutines T.
Requesting(T) ==
    \/ \E t \in T, id \in Ids, req \in Requests : AddCall(t, id, req)
    \/ \E t \in T : AddCheckPort(t)
    \/ \E t \in T : AddStart(t)
    \/ \E t \in T : AddGetPort(t)
    \/ \E t \in T : AddWrite(t)
    \/ \E t \in T : AddInsert(t)
    \/ \E t \in T, id \in Ids : RemoveCall(t, id)
    \/ \E t \in T : RemoveFile(t)
    \/ \E t \in T : RemoveStop(t)
    \/ \E t \in T : RemoveDelete(t)

\* One request at a time, while the scheduler calls Gather.
Next == Requesting({"t1"}) \/ Gathering

Spec == Init /\ [][Next]_vars

\* Every goroutine of Gather is scheduled and returns from its Collect.
FairSpec ==
    Spec /\ WF_vars(GatherWait) /\ \A id \in Ids : WF_vars(GatherTask(id))

\* Two requests at a time.
NextRace == Requesting(Threads)

SpecRace == Init /\ [][NextRace]_vars

\* One AddContainer call per request goroutine, the ids pairwise distinct,
\* while the scheduler calls Gather.
NextAdds ==
    \/ \E t \in Threads, id \in Ids, req \in Requests :
          /\ pc[t] = "idle"
          /\ \A u \in Threads \ {t} : ctr[u].Id # id
          /\ AddCall(t, id, req)
    \/ \E t \in Threads : AddCheckPort(t)
    \/ \E t \in Threads : AddStart(t)
    \/ \E t \in Threads : AddGetPort(t)
    \/ \E t \in Threads : AddWrite(t)
    \/ \E t \in Threads : AddInsert(t)
    \/ Gathering

SpecAdds == Init /\ [][NextAdds]_vars

\* Two requests at a time through the API: any request beside a POST.
NextApi == Serving({"t1"}) \/ Posting({"t2"})

SpecApi == Init /\ [][NextApi]_vars

\* One goroutine adds and removes while another lists.
NextList == Requesting({"t1"}) \/ Listing({"t2"})

SpecList == Init /\ [][NextList]_vars

\* One goroutine adds and removes, another looks up and lists, the scheduler
\* calls Gather and Stop, and ds.rwmu is taken and released step by step.
LockIds == {"a"}
LockRequests == {r \in Requests : r.StatsdPort # 0}

NextLock ==
    \/ \E id \in LockIds, req \in LockRequests : AddCall("t1", id, req)
    \/ \E id \in LockIds : RemoveEnter("t1", id)
    \/ \E id \in LockIds : GetEnter("t2", id)
    \/ ListCall("t2")
    \/ ListRace("t2")
    \/ \E t \in Threads : Acquire(t)
    \/ \E t \in Threads : Proceed(t)
    \/ GatherRLock
    \/ GatherSpawn
    \/ \E id \in Ids : GatherTask(id)
    \/ GatherWait
    \/ StopShutdown
    \/ StopRLock
    \/ StopLoop

\* Every call under way is scheduled, and a goroutine that waits for ds.rwmu
\* gets it when it is free again and again.
InitLock == Init /\ ContainersDir = ""

StepsLock == InitLock /\ [][NextLock]_vars

SpecLock ==
    /\ StepsLock
    /\ \A t \in Threads : WF_vars(Proceed(t)) /\ SF_vars(Acquire(t))
    /\ SF_vars(GatherRLock) /\ WF_vars(GatherSpawn)
    /\ \A id \in Ids : WF_vars(GatherTask(id))
    /\ WF_vars(GatherWait)
    /\ SF_vars(StopRLock) /\ WF_vars(StopLoop)

\* A listener calls the tagging accumulator of its container.
NextTags == \E id \in Ids, call \in Calls : AccumulatorCall(id, call)

SpecTags == Init /\ [][NextTags]_vars

\* The life of the plugin: one request at a time, Stop, and the next process
\* started on the same directory.
NextLife ==
    \/ \E id \in Ids, req \in LifeRequests : AddCall("t1", id, req)
    \/ AddCheckPort("t1")
    \/ AddStart("t1")
    \/ AddGetPort("t1")
    \/ AddWrite("t1")
    \/ AddInsert("t1")
    \/ \E id \in Ids : RemoveCall("t1", id)
    \/ RemoveFile("t1")
    \/ RemoveStop("t1")
    \/ RemoveDelete("t1")
    \/ Stopping
    \/ Start
    \/ Loading

SpecLife == Init /\ [][NextLife]_vars

----------------------------------------------------------------------------
\* Properties

AddPcs == {"add_check", "add_start", "add_port", "add_write", "add_insert"}

\* C1: an Add whose id is already registered starts no new listener, leaves
\* the map entry untouched and returns the existing record without an error.
C1_ReAddReturnsExisting ==
    [][\A t \in Threads :
          (pc[t] \in AddPcs /\ pc'[t] # pc[t] /\ ctr[t].Id \in DOMAIN containers)
              => /\ servers' = servers
                 /\ containers' = containers
                 /\ pc'[t] = "add_done"
                 /\ err'[t] = "nil"
                 /\ ctr'[t] = containers[ctr[t].Id]]_vars

\* C2: an Add with a non-zero port that a listener holds when it is probed
\* returns PortInUse at once: no server is started, nothing is registered or
\* written, the process lives on; a call that returned PortInUse started no
\* server.
C2_OccupiedPortRefused ==
    /\ [](\A t \in Threads :
            (pc[t] = "add_done" /\ err[t] = "PortInUse") => ctr[t].Server = 0)
    /\ [][\A t \in Threads :
            (/\ pc[t] = "add_check"
             /\ pc'[t] # pc[t]
             /\ ctr[t].StatsdPort # 0
             /\ ctr[t].StatsdPort \in BoundPorts)
                => /\ pc'[t] = "add_done"
                   /\ err'[t] = "PortInUse"
                   /\ servers' = servers
                   /\ containers' = containers
                   /\ disk' = disk
                   /\ crashed' = FALSE]_vars

\* An Add was refused for a port that the live listener of another container
\* holds, and its id is not registered.
C2_Witness ==
    \E t \in Threads :
        /\ pc[t] = "add_done"
        /\ err[t] = "PortInUse"
        /\ ctr[t].Id \notin DOMAIN containers
        /\ \E h \in DOMAIN servers :
              /\ servers[h].port = ctr[t].StatsdPort
              /\ servers[h].cid # ctr[t].Id

\* C3: when the write of the container file fails, the listener started by
\* that Add is terminated by the time Add has returned, and the id is not
\* inserted.
C3_PersistFailureRollsBack ==
    \A t \in Threads :
        (pc[t] = "add_done" /\ err[t] = "PersistFailed")
            => /\ ~Live(ctr[t].Server)
               /\ \A id \in DOMAIN containers :
                     containers[id].Server # ctr[t].Server

\* C4: when Start fails or the bound address is not published in time, no
\* listener started by that Add is live after Add has returned, and none is
\* registered.
C4_ProvisionFailureLeavesNothing ==
    \A t \in Threads :
        (pc[t] = "add_done" /\ err[t] \in {"StartFailed", "ProvisionTimeout"})
            => \/ ctr[t].Server = 0
               \/ /\ ~Live(ctr[t].Server)
                  /\ \A id \in DOMAIN containers :
                        containers[id].Server # ctr[t].Server

Steps(t) == pc'[t] # pc[t] \/ ctr'[t] # ctr[t] \/ err'[t] # err[t]

\* A Remove of an id that is not in the map returns NotFound and changes
\* nothing; a Remove goes on only for an id that is in the map.
RemoveUnknownIsNotFound ==
    /\ [][\A t \in Threads :
            (pc[t] \in Rest /\ Steps(t) /\ pc'[t] = "rm_done")
                => /\ err'[t] = "NotFound"
                   /\ ctr'[t].Id \notin DOMAIN containers
                   /\ UNCHANGED regVars]_vars
    /\ [][\A t \in Threads :
            (pc[t] \in Rest /\ pc'[t] = "rm_file")
                => /\ ctr'[t].Id \in DOMAIN containers
                   /\ UNCHANGED regVars]_vars

C7_InjectedTagWins ==
    \A p \in sink : p.tags["container_id"] = p.cid

\* C8: a failed Collect stops no other goroutine of the same Gather: each one
\* that has not run yet can run, and when Gather has returned every goroutine
\* has finished and the metrics it emitted are in the accumulator.
C8_HarvestIsolation ==
    /\ (gpc = "wait" /\ ~crashed)
          => \A id \in DOMAIN tasks :
                tasks[id].st = "ready" => ENABLED GatherTask(id)
    /\ gpc = "done"
          => \A id \in DOMAIN tasks :
                /\ tasks[id].st \in {"ok", "failed"}
                /\ tasks[id].emitted # {}
                      => \E p \in sink : p.cid = tasks[id].c.Id

\* Gather has returned; one Collect failed and another one's metric is in
\* the accumulator.
C8_Witness ==
    /\ gpc = "done"
    /\ \E i, j \in DOMAIN tasks :
          /\ tasks[i].st = "failed"
          /\ tasks[j].st = "ok"
          /\ tasks[j].emitted # {}
          /\ \E p \in sink : p.cid = tasks[j].c.Id

\* C9 as claimed: Gather returns an error exactly when a Collect failed.
C9_HarvestReturnsFailures ==
    gpc = "done"
        => (gerr # "nil" <=> \E id \in DOMAIN tasks : tasks[id].st = "failed")

\* C9 as amended: the error of a failed Collect is logged with the id of its
\* container, and Gather returns nil whether or not a Collect failed.
C9_HarvestLogsFailures ==
    /\ gpc = "done" => gerr = "nil"
    /\ \A id \in DOMAIN tasks :
          tasks[id].st = "failed" => tasks[id].c.Id \in errlog

\* Gather has returned nil although a Collect failed; the failure is logged.
C9_Witness ==
    /\ gpc = "done"
    /\ gerr = "nil"
    /\ \E id \in DOMAIN tasks : tasks[id].st = "failed" /\ id \in errlog

\* C10: Gather starts one goroutine for each record that is in the map when
\* it is called, returns only when each of them has finished, and does
\* return once every Collect has returned.
C10_HarvestJoins ==
    /\ [][(gpc # "wait" /\ gpc' = "wait")
            => /\ DOMAIN tasks' = DOMAIN containers
               /\ \A id \in DOMAIN containers :
                     tasks'[id].c = containers[id] /\ tasks'[id].st = "ready"
               /\ wg' = Cardinality(DOMAIN containers)]_vars
    /\ [](gpc = "done" => \A id \in DOMAIN tasks : tasks[id].st # "ready")
    /\ (gpc = "wait") ~> (gpc = "done")

\* Gather has returned after the goroutines of two records finished.
C10_Witness ==
    /\ gpc = "done"
    /\ Cardinality(DOMAIN tasks) = 2
    /\ \A id \in DOMAIN tasks : tasks[id].st # "ready"

\* C11: the snapshot Gather takes under the read lock holds the record of
\* every Add that has returned without error (and was not removed since),
\* does not hold the record of an Add that has not inserted yet, and holds
\* only whole records: a started server, a host and a port.
C11_SnapshotSeesWholeAdds ==
    [][(gpc # "wait" /\ gpc' = "wait") =>
          /\ \A t \in Threads :
                (pc[t] = "add_done" /\ err[t] = "nil") =>
                    /\ ctr[t].Id \in DOMAIN tasks'
                    /\ tasks'[ctr[t].Id].c = ctr[t]
          /\ \A t \in Threads :
                pc[t] \in AddPcs =>
                    /\ \A id \in DOMAIN tasks' : tasks'[id].c # ctr[t]
                    /\ (ctr[t].Id \notin DOMAIN containers
                            => ctr[t].Id \notin DOMAIN tasks')
          /\ \A id \in DOMAIN tasks' :
                /\ tasks'[id].c.Id = id
                /\ tasks'[id].c.Server \in DOMAIN servers
                /\ tasks'[id].c.StatsdPort # 0
                /\ tasks'[id].c.StatsdHost # ""]_vars

\* A snapshot that holds the record of the Add that has just returned, while
\* the next Add is between its write and its insertion.
C11_Witness ==
    /\ gpc = "wait"
    /\ pc["t1"] = "add_insert"
    /\ ctr["t1"].Id \notin DOMAIN tasks
    /\ \E id \in DOMAIN tasks : tasks[id].c = containers[id]

\* C12: when concurrent Adds with pairwise distinct ids have all returned,
\* with Gather calls running beside them, the map holds exactly the records
\* of the Adds that returned without error, each as its Add returned it, and
\* no two records of the map have the same port.
C12_NoLostAdd ==
    /\ (\A t \in Threads : pc[t] = "add_done") =>
          /\ DOMAIN containers = {ctr[t].Id : t \in {u \in Threads : err[u] = "nil"}}
          /\ \A t \in Threads :
                err[t] = "nil" => containers[ctr[t].Id] = ctr[t]
    /\ \A i, j \in DOMAIN containers :
          i # j => containers[i].StatsdPort # containers[j].StatsdPort

\* Both Adds have returned without error and a Gather that took its snapshot
\* between the two insertions has returned as well.
C12_Witness ==
    /\ \A t \in Threads : pc[t] = "add_done" /\ err[t] = "nil"
    /\ Cardinality(DOMAIN containers) = 2
    /\ gpc = "done"
    /\ Cardinality(DOMAIN tasks) = 1

\* C13: with a directory, an Add that returned without error has left the
\* file of its record, host and port as returned, the port not zero; the
\* next process leaves the files as they are while it loads them, and when
\* it has loaded the directory, every file whose load was not logged as
\* failed has its record in the map, with the host of the file and a port
\* that is not zero and is held by the record's running server.
C13_RestartRestores ==
    [][/\ \A t \in Threads :
             (ContainersDir # "" /\ pc[t] = "add_done" /\ err[t] = "nil") =>
                 /\ ctr[t].Id \in DOMAIN disk
                 /\ disk[ctr[t].Id] = Marshal(ctr[t])
                 /\ ctr[t].StatsdPort # 0
       /\ phase = "loading" => disk' = disk
       /\ (phase = "loading" /\ phase' = "running") =>
             \A id \in DOMAIN disk \ loadlog :
                 /\ id \in DOMAIN containers
                 /\ containers[id].StatsdHost = disk[id].statsd_host
                 /\ containers[id].StatsdPort # 0
                 /\ containers[id].Server \in DOMAIN servers
                 /\ servers[containers[id].Server].port = containers[id].StatsdPort]_vars

\* The next process serves with the record it loaded from the file of an
\* Add that named a host and no port.
C13_Witness ==
    /\ phase = "running"
    /\ ctr["t1"] = NoCtr
    /\ loadlog = {}
    /\ ctr[Main].Id \in DOMAIN containers
    /\ containers[ctr[Main].Id] = ctr[Main]
    /\ ctr[Main].StatsdHost = HostRequest.StatsdHost
    /\ ctr[Main].StatsdPort # 0
    /\ Live(ctr[Main].Server)

\* C14: with a directory, when Start has loaded the containers and no Add
\* and no Remove is under way, the ids that have a file are the ids of the
\* map, also after a file could not be loaded at startup.
C14_DiskMatchesMap ==
    (/\ ContainersDir # ""
     /\ phase = "running"
     /\ \A t \in Goroutines : pc[t] \in Rest)
        => DOMAIN disk = DOMAIN containers

\* C15: while loadContainers runs, a file that cannot be opened or decoded
\* or whose Add fails is logged and skipped: Start does not fail on it, and
\* when loadContainers is over every other file has its record in the map.
C15_LoadSkipsFailures ==
    [][/\ phase = "loading" => phase' \in {"loading", "running"}
       /\ (phase = "loading" /\ loadlog' # loadlog) =>
             /\ toload' \in {toload, toload \ (loadlog' \ loadlog)}
             /\ containers' = containers
       /\ (phase = "loading" /\ phase' = "running") =>
             /\ loadlog \subseteq DOMAIN disk
             /\ DOMAIN containers = DOMAIN disk \ loadlog]_vars

\* Start has returned after one file failed to load and the other was loaded.
C15_Witness ==
    /\ phase = "running"
    /\ ctr["t1"] = NoCtr
    /\ loadlog # {}
    /\ DOMAIN containers # {}
    /\ DOMAIN containers = DOMAIN disk \ loadlog

\* C16: without a directory Start reads nothing and leaves the map empty,
\* also in the next process; Add and Remove leave the directory alone and
\* never return a write or delete error.
C16_NoDirNoDisk ==
    [][ContainersDir = "" =>
          /\ disk' = disk
          /\ toload' = {}
          /\ loadlog' = {}
          /\ phase' \notin {"loading", "startfailed"}
          /\ (phase # "running" /\ phase' = "running") =>
                /\ DOMAIN containers' = {}
                /\ servers' = <<>>
          /\ \A t \in Goroutines : err'[t] \notin {"PersistFailed", "DeleteFailed"}]_vars

\* Without a directory a container was added, another added and removed, and
\* Stop has returned: the next Start finds nothing.
C16_Witness ==
    /\ ContainersDir = ""
    /\ phase = "stopped"
    /\ DOMAIN containers # {}
    /\ DOMAIN disk = {}
    /\ pc["t1"] = "rm_done"
    /\ err["t1"] = "nil"

\* C17: when Stop has returned and no request is under way, no server
\* started by this plugin holds a port any more.
C17_StopFreesEveryPort ==
    (phase = "stopped" /\ \A t \in Threads : pc[t] \in Rest)
        => BoundPorts = {}

\* C18: Server.Stop is called at most once on each server, whatever the
\* interleaving of two Removes of the same id.
C18_StoppedAtMostOnce ==
    \A h \in DOMAIN servers : servers[h].stops <= 1

\* C19: once Stop has shut the API server down, no request goroutine starts
\* a call, and with no call under way neither the map nor the directory
\* changes.
C19_NoRequestAfterStop ==
    [][(phase \in {"stopping", "stopped"} /\ phase' \in {"stopping", "stopped"}) =>
          /\ ~serving'
          /\ \A t \in Threads :
                pc[t] \in Rest =>
                    pc'[t] = pc[t] /\ ctr'[t] = ctr[t] /\ err'[t] = err[t]
          /\ (\A t \in Threads : pc[t] \in Rest) =>
                containers' = containers /\ disk' = disk]_vars

\* Stop has returned with a container in the map and the last request over.
C19_Witness ==
    /\ phase = "stopped"
    /\ ~serving
    /\ pc["t1"] = "add_done"
    /\ err["t1"] = "nil"
    /\ ctr["t1"].Id \in DOMAIN containers

\* C20: while a ListContainers call ranges over the map, no Add and no
\* Remove writes the map.
C20_ListExcludesWriters ==
    [][(\E t \in Threads : pc[t] = "list_iter") => containers' = containers]_vars

\* C21: an Add that probes, starts its server, waits for the port or writes
\* its file, and a Remove that removes its file or stops its server, holds
\* ds.rwmu neither for writing nor for reading; meanwhile Gather can take its
\* snapshot and an Add of another id can insert its record.
SlowPcs == {"add_check", "add_start", "add_port", "add_write", "rm_file", "rm_stop"}

StepsHttp(t) == Steps(t) \/ handler'[t] # handler[t] \/ status'[t] # status[t]

\* C22: a POST hands a container to AddContainer only when its id is not in
\* the map; the POST answered 303 starts no server and leaves map, files and
\* servers as they are; when AddContainer has returned, the answer is 201
\* with the record it returned if there was no error, and 500 after an
\* occupied port, a failed start, a port timeout or a failed write.
C22_PostAnswers ==
    [][\A t \in Threads :
          /\ (pc[t] \in HttpRest /\ pc'[t] = "add_check") =>
                /\ ctr'[t].Id \notin DOMAIN containers
                /\ status'[t] = 0
          /\ (pc[t] \in HttpRest /\ StepsHttp(t) /\ status'[t] = 303) =>
                /\ DOMAIN containers # {}
                /\ pc'[t] = "http_done"
                /\ UNCHANGED regVars
          /\ (handler[t] = "POST" /\ pc[t] = "add_done" /\ StepsHttp(t)) =>
                /\ pc'[t] = "http_done"
                /\ err[t] = "nil" =>
                      /\ status'[t] = 201
                      /\ ctr'[t] = Body(ctr[t])
                      /\ ctr[t].Server \in DOMAIN servers
                /\ err[t] \in {"PortInUse", "StartFailed", "ProvisionTimeout",
                                "PersistFailed"} => status'[t] = 500
                /\ UNCHANGED regVars]_vars

\* One POST was answered 201 with its record, a POST of the same id after
\* it 303.
C22_Witness ==
    /\ pc["t1"] = "http_done"
    /\ status["t1"] = 303
    /\ pc["t2"] = "http_done"
    /\ status["t2"] = 201
    /\ DOMAIN containers = {ctr["t2"].Id}
    /\ Body(containers[ctr["t2"].Id]) = ctr["t2"]

\* C23: a DELETE goes on to RemoveContainer only for an id that is in the
\* map, and has written 202 by then; the status stays 202 until the handler
\* returns, whatever RemoveContainer returns; the DELETE answered 404 leaves
\* map, files and servers as they are.
C23_DeleteAnswers ==
    [][\A t \in Threads :
          /\ (pc[t] \in HttpRest /\ pc'[t] = "del_remove") =>
                /\ ctr'[t].Id \in DOMAIN containers
                /\ status'[t] = 202
                /\ UNCHANGED regVars
          /\ (pc[t] \in HttpRest /\ StepsHttp(t) /\ status'[t] = 404) =>
                /\ pc'[t] = "http_done"
                /\ UNCHANGED regVars
          /\ (handler[t] = "DELETE" /\ pc[t] \notin HttpRest /\ StepsHttp(t)) =>
                /\ status[t] = 202
                /\ status'[t] = 202]_vars

\* RemoveContainer has returned an error to a handler that had answered 202.
C23_Witness ==
    /\ handler["t1"] = "DELETE"
    /\ pc["t1"] = "rm_done"
    /\ err["t1"] = "DeleteFailed"
    /\ status["t1"] = 202

\* C24: when the RemoveContainer call of a DELETE handler deletes the key,
\* having met no error, the record is out of the map, its file is gone from
\* the directory, and every other record is what it was.
C24_DeleteRemovesAll ==
    [][\A t \in Threads :
          (handler[t] = "DELETE" /\ pc[t] = "rm_delete" /\ pc'[t] = "rm_done"
              /\ err'[t] = "nil") =>
              /\ ctr[t].Id \notin DOMAIN containers'
              /\ ContainersDir # "" => ctr[t].Id \notin DOMAIN disk'
              /\ \A id \in DOMAIN containers \ {ctr[t].Id} :
                    /\ id \in DOMAIN containers'
                    /\ containers'[id] = containers[id]]_vars

\* C25: a record that is in the map before and after a step has the same
\* port and the same server after it as before: GetContainer and
\* ListContainers, which read the map, report one port and one listener for
\* an id for as long as its key stays.
C25_PortAndServerStable ==
    [][\A id \in DOMAIN containers \cap DOMAIN containers' :
          /\ containers'[id].StatsdPort = containers[id].StatsdPort
          /\ containers'[id].Server = containers[id].Server]_vars

\* C26: through an AddContainer call the record keeps the host it was
\* called with, or gets ds.StatsdHost when that was empty, and keeps the port
\* it was called with, or gets the port its server bound, not zero, when that
\* was 0; with a directory the file it writes holds the id, host and port of
\* that record, and the record inserted and returned is that record.
C26_ResolvedHostAndPort ==
    [][\A t \in Threads :
          /\ (pc[t] = "add_check" /\ pc'[t] = "add_start") => ctr'[t] = ctr[t]
          /\ (pc[t] = "add_start" /\ pc'[t] = "add_port") =>
                /\ ctr'[t].Id = ctr[t].Id
                /\ ctr'[t].StatsdHost =
                      IF ctr[t].StatsdHost # "" THEN ctr[t].StatsdHost ELSE StatsdHost
                /\ ctr'[t].StatsdPort = ctr[t].StatsdPort
                /\ ctr'[t].Server \in DOMAIN servers' \ DOMAIN servers
          /\ (pc[t] = "add_port" /\ pc'[t] = "add_write") =>
                /\ ctr'[t].Id = ctr[t].Id
                /\ ctr'[t].StatsdHost = ctr[t].StatsdHost
                /\ ctr'[t].Server = ctr[t].Server
                /\ ctr'[t].StatsdPort =
                      IF ctr[t].StatsdPort # 0 THEN ctr[t].StatsdPort
                                              ELSE servers[ctr[t].Server].port
                /\ ctr'[t].StatsdPort # 0
          /\ (pc[t] = "add_write" /\ pc'[t] = "add_insert") =>
                /\ ctr'[t] = ctr[t]
                /\ ContainersDir # "" =>
                      /\ ctr[t].Id \in DOMAIN disk'
                      /\ disk'[ctr[t].Id].container_id = ctr[t].Id
                      /\ disk'[ctr[t].Id].statsd_host = ctr[t].StatsdHost
                      /\ disk'[ctr[t].Id].statsd_port = ctr[t].StatsdPort
          /\ (pc[t] = "add_insert" /\ pc'[t] = "add_done") =>
                /\ err'[t] = "nil"
                /\ ctr'[t] = ctr[t]
                /\ containers'[ctr[t].Id] = ctr[t]
                /\ ctr[t].StatsdHost # ""
                /\ ctr[t].StatsdPort # 0]_vars

\* An AddContainer called with no host and port 0 has returned its record.
C26_Witness ==
    /\ ContainersDir # ""
    /\ pc["t1"] = "add_done"
    /\ err["t1"] = "nil"
    /\ ctr["t1"].StatsdHost = StatsdHost
    /\ ctr["t1"].StatsdPort = 2
    /\ containers[ctr["t1"].Id] = ctr["t1"]
    /\ Marshal(ctr["t1"]) = disk[ctr["t1"].Id]

\* C27: loadContainers hands each file it could read to AddContainer with
\* the id, the host and the port of the file, the port not zero; a free port
\* passes the probe, the server is started on that port and no port is asked
\* of the server; the record inserted has the id, host and port of the file,
\* and when Start begins to serve, the map holds the records of the files not
\* logged as failed, each as its file has it, and no other.
C27_RestoredOnFixedPort ==
    [][phase = "loading" =>
          /\ (pc[Main] = "idle" /\ pc'[Main] = "add_check") =>
                \E id \in toload \ toload' :
                    /\ Marshal(ctr'[Main]) = disk[id]
                    /\ ctr'[Main].StatsdPort # 0
          /\ (pc[Main] = "add_check" /\ pc'[Main] # pc[Main]
                  /\ ctr[Main].StatsdPort \notin BoundPorts) =>
                pc'[Main] = "add_start"
          /\ (pc[Main] = "add_start" /\ pc'[Main] = "add_port") =>
                /\ Marshal(ctr'[Main]) = Marshal(ctr[Main])
                /\ servers'[ctr'[Main].Server].port = ctr[Main].StatsdPort
          /\ (pc[Main] = "add_port" /\ pc'[Main] # pc[Main]) =>
                /\ pc'[Main] = "add_write"
                /\ ctr'[Main] = ctr[Main]
          /\ (pc[Main] = "add_insert" /\ pc'[Main] = "add_done") =>
                /\ containers'[ctr[Main].Id] = ctr[Main]
                /\ Marshal(ctr[Main]) = disk[ctr[Main].Id]
          /\ phase' = "running" =>
                /\ DOMAIN containers = DOMAIN disk \ loadlog
                /\ \A id \in DOMAIN containers :
                      /\ Marshal(containers[id]) = disk[id]
                      /\ servers[containers[id].Server].port = disk[id].statsd_port
                      /\ disk[id].statsd_port # 0]_vars

\* Start serves with both records of the directory restored.
C27_Witness ==
    /\ phase = "running"
    /\ ctr["t1"] = NoCtr
    /\ pc[Main] = "idle"
    /\ loadlog = {}
    /\ DOMAIN disk = Ids
    /\ DOMAIN containers = Ids
    /\ \A id \in Ids : Marshal(containers[id]) = disk[id]

\* C28: an AddContainer call comes to its insertion only from its write,
\* and with a directory only in the step that wrote the file of its record; a
\* write that fails ends the call with the map as it was; and a key is put
\* into the map, or its record changed, only by a call at its insertion.
C28_InsertAfterSave ==
    [][/\ \A t \in Threads :
             /\ (pc[t] # "add_insert" /\ pc'[t] = "add_insert") =>
                   /\ pc[t] = "add_write"
                   /\ ContainersDir # "" =>
                         disk' = MapPut(disk, ctr[t].Id, Marshal(ctr[t]))
             /\ (pc[t] = "add_write" /\ pc'[t] \notin {"add_write", "add_insert"}) =>
                   /\ pc'[t] = "add_done"
                   /\ err'[t] = "PersistFailed"
                   /\ containers' = containers
       /\ \A id \in DOMAIN containers' :
             (id \notin DOMAIN containers \/ containers'[id] # containers[id]) =>
                 \E t \in Threads :
                     /\ pc[t] = "add_insert"
                     /\ pc'[t] = "add_done"
                     /\ ctr[t].Id = id
                     /\ containers'[id] = ctr[t]]_vars

\* One call has written its file and has not inserted yet, the other has
\* returned the error of its write and its id is not in the map.
C28_Witness ==
    /\ ContainersDir # ""
    /\ pc["t1"] = "add_insert"
    /\ ctr["t1"].Id \notin DOMAIN containers
    /\ ctr["t1"].Id \in DOMAIN disk
    /\ disk[ctr["t1"].Id] = Marshal(ctr["t1"])
    /\ pc["t2"] = "add_done"
    /\ err["t2"] = "PersistFailed"
    /\ ctr["t2"].Id \notin DOMAIN containers

\* C29: when two AddContainer calls for different ids carry the same
\* request with a port, and one is about to start its server while the port
\* is held, the process is not ended by a start on the held port.
C29_NoStartOnBoundPort ==
    [][\A t \in Threads, u \in Threads :
          (/\ ~crashed
           /\ pc[t] = "add_start"
           /\ ctr[t].StatsdPort # 0
           /\ ctr[t].StatsdPort \in BoundPorts
           /\ pc[u] \in AddPcs
           /\ ctr[u].Id # ctr[t].Id
           /\ ctr[u].StatsdHost = ctr[t].StatsdHost
           /\ ctr[u].StatsdPort = ctr[t].StatsdPort)
              => ~crashed']_vars

\* C30: with a directory, a RemoveContainer call that has found its record
\* and finds no file of that id goes on without an error to stop the server
\* and delete the key.
C30_MissingFileIsSuccess ==
    [][\A t \in Threads :
          (/\ ContainersDir # ""
           /\ pc[t] = "rm_file"
           /\ ctr[t].Id \in DOMAIN containers
           /\ ctr[t].Id \notin DOMAIN disk
           /\ pc'[t] # pc[t])
              => /\ pc'[t] = "rm_stop"
                 /\ err'[t] = "nil"]_vars

\* C31: when no AddContainer and no RemoveContainer call is under way and
\* the plugin is not stopping, every server that was started and not stopped
\* is the Server of exactly one record of the map.
C31_NoOrphanListener ==
    (/\ ~crashed
     /\ phase = "running"
     /\ \A t \in Goroutines : pc[t] \in Rest)
        => \A h \in DOMAIN servers :
              Live(h) =>
                  Cardinality({id \in DOMAIN containers : containers[id].Server = h}) = 1

\* C32: a goroutine of Gather calls c.Server.Gather only on a server that
\* has not been stopped, and only for a record whose id is still in the map
\* with that server.
C32_NoCollectAfterStop ==
    [][\A id \in DOMAIN tasks :
          (tasks[id].st = "ready" /\ id \in DOMAIN tasks' /\ tasks'[id].st # "ready") =>
              /\ Live(tasks[id].c.Server)
              /\ id \in DOMAIN containers
              /\ containers[id].Server = tasks[id].c.Server]_vars

\* C33: the key a RemoveContainer call deletes holds the record whose
\* server that call stopped.
C33_RemoveDeletesWhatItStopped ==
    [][\A t \in Threads :
          (pc[t] = "rm_delete" /\ pc'[t] = "rm_done" /\ ctr[t].Id \in DOMAIN containers) =>
              containers[ctr[t].Id].Server = ctr[t].Server]_vars

\* C34: of two POST handlers that are in their AddContainer calls with the
\* same id, at most one has started a server.
C34_OnePostProvisions ==
    \A t \in Threads, u \in Threads :
        (/\ t # u
         /\ handler[t] = "POST"
         /\ handler[u] = "POST"
         /\ pc[t] \in AddPcs \cup {"add_done"}
         /\ pc[u] \in AddPcs \cup {"add_done"}
         /\ ctr[t].Id = ctr[u].Id)
            => ~(ctr[t].Server # 0 /\ ctr[u].Server # 0)

\* C35: an AddContainer call leaves the map as it is in every step before
\* its insertion, and a call that returns an error returns from one of those
\* steps: it has not inserted, and the map is what it was.
C35_FailedAddLeavesMap ==
    [][\A t \in Threads :
          /\ (pc'[t] = "add_check" /\ pc[t] # "add_check") => containers' = containers
          /\ (pc[t] \in AddPcs \ {"add_insert"} /\ pc'[t] # pc[t]) =>
                containers' = containers
          /\ (pc[t] \in AddPcs /\ pc'[t] = "add_done" /\ err'[t] # "nil") =>
                /\ pc[t] # "add_insert"
                /\ err'[t] \in {"PortInUse", "StartFailed", "ProvisionTimeout",
                                 "PersistFailed"}
                /\ containers' = containers]_vars

\* Two calls have failed, one on a held port and one on the port of its
\* server, beside a registered container.
C35_Witness ==
    /\ pc["t1"] = "add_done"
    /\ err["t1"] = "ProvisionTimeout"
    /\ ctr["t1"].Id \notin DOMAIN containers
    /\ pc["t2"] = "add_done"
    /\ err["t2"] = "PortInUse"
    /\ DOMAIN containers # {}

\* C36: a goroutine that asks for ds.rwmu does not hold it; every
\* AddContainer, RemoveContainer, GetContainer and ListContainers call under
\* way returns, every Gather under way returns, and a Stop under way returns.
C36_EveryCallReturns ==
    /\ [](\A t \in Threads :
            pc[t] \in {"add_insert", "rm_delete", "rm_get", "get_call"} =>
                (rwmu.w # t /\ t \notin rwmu.r))
    /\ \A t \in Threads : (pc[t] \notin Rest) ~> (pc[t] \in Rest)
    /\ (gpc \in {"rlocked", "wait"}) ~> (gpc = "done")
    /\ (phase \in {"stopping", "stopping_locked"}) ~> (phase = "stopped")

\* C37: while loadContainers runs the API server does not accept requests
\* and no request is under way; the server begins to accept them only when
\* every file has been handled and the last AddContainer of the load has
\* returned.
C37_LoadsBeforeServing ==
    /\ [](phase = "loading" =>
            /\ ~serving
            /\ \A t \in Threads : pc[t] = "idle" /\ handler[t] = "")
    /\ [][(~serving /\ serving') =>
            /\ toload' = {}
            /\ pc'[Main] = "idle"
            /\ phase' = "running"
            /\ phase = "loading" => DOMAIN containers' = DOMAIN disk \ loadlog]_vars

\* loadContainers has restored one record and is adding the next; the API
\* server is not serving.
C37_Witness ==
    /\ phase = "loading"
    /\ ~serving
    /\ DOMAIN containers # {}
    /\ pc[Main] \in AddPcs
    /\ ctr[Main].Id \notin DOMAIN containers

\* C38: the steps of Stop leave the files and the map as they are; with a
\* directory and no request under way, every record of the map has its file,
\* which holds that record; the next Start lists the files that are there and
\* changes none while it loads, and when it serves, every file whose load was
\* not logged as failed has its record in the map again.
C38_StopKeepsFiles ==
    /\ [][(phase \in {"running", "stopping"} /\ phase' \in {"stopping", "stopped"}
              /\ phase' # phase) =>
              /\ disk' = disk
              /\ containers' = containers]_vars
    /\ []((ContainersDir # "" /\ ~crashed /\ \A t \in Goroutines : pc[t] \in Rest) =>
              \A id \in DOMAIN containers :
                  /\ id \in DOMAIN disk
                  /\ disk[id] = Marshal(containers[id]))
    /\ [][(phase = "stopped" /\ phase' = "loading") =>
              /\ disk' = disk
              /\ toload' = DOMAIN disk]_vars
    /\ [][phase = "loading" => disk' = disk]_vars
    /\ [][(phase = "loading" /\ phase' = "running") =>
              \A id \in DOMAIN disk \ loadlog :
                  /\ id \in DOMAIN containers
                  /\ Marshal(containers[id]) = disk[id]]_vars

\* Stop has returned with two containers registered, their servers stopped
\* and their files in the directory.
C38_Witness ==
    /\ phase = "stopped"
    /\ ContainersDir # ""
    /\ pc["t1"] \in Rest
    /\ DOMAIN containers = Ids
    /\ \A id \in Ids :
          /\ id \in DOMAIN disk
          /\ disk[id] = Marshal(containers[id])
          /\ ~Live(containers[id].Server)

\* C39: a call on the tagging accumulator leaves the caller's tag map as it
\* was passed, and hands on to the inner accumulator the same method,
\* measurement, fields and timestamp, with a tag map whose keys are the
\* caller's keys and container_id, and in which every caller tag under
\* another key than container_id has the caller's value.
C39_TagsForwarded ==
    [][\A id \in Ids, call \in Calls :
          AccumulatorCall(id, call) =>
              /\ tasks'[id].emitted = {call.tags}
              /\ \E p \in sink' :
                    /\ sink' = sink \cup {p}
                    /\ p.method = call.method
                    /\ p.measurement = call.measurement
                    /\ p.fields = call.fields
                    /\ p.t = call.t
                    /\ DOMAIN p.tags = DOMAIN call.tags \cup {"container_id"}
                    /\ \A k \in DOMAIN call.tags \ {"container_id"} :
                          p.tags[k] = call.tags[k]]_vars

\* A metric passed with a host tag, a container_id tag of the caller's own
\* and a timestamp has been handed on, and the caller's map is as it was.
C39_Witness ==
    \E p \in sink, id \in DOMAIN tasks :
        /\ DOMAIN p.tags = {"container_id", "host"}
        /\ p.tags["host"] = "other"
        /\ p.t = <<1>>
        /\ p.method = "AddGauge"
        /\ tasks[id].emitted = {[k \in TagKeys |-> "other"]}

====
